---- MODULE Spec2Model ----
(***************************************************************************)
(* pystream: the monthly STREAM rainfall-runoff simulation.                *)
(*                                                                         *)
(* MonthlySimulation (pystream/monthly_simulation.py) holds three state    *)
(* grids (snow_accum, available_water, ground_water) and, for every month  *)
(* of its climatological datasets, runs _simulation_step: snow, potential  *)
(* evapotranspiration, soil storage, flow separation, flow accumulation.   *)
(* Init is the outcome of the constructor on its arguments: an instance,   *)
(* or the ValueError it raises.  StreamSimulation (pystream/stream.py) has *)
(* the same step under the name simulation_step; one is run in lock step   *)
(* with the MonthlySimulation on the same terrain and months.              *)
(*                                                                         *)
(* Numbers.  The program computes on numpy doubles.  A double is modelled  *)
(* as a fixed-point integer counting hundredths (SCALE), or as one of the  *)
(* three IEEE special values NaN, PInf, NInf.  Products and quotients are  *)
(* rounded towards minus infinity to a hundredth.  A grid is a sequence of *)
(* one number per cell; the grid is one row of NumCells cells.             *)
(***************************************************************************)
EXTENDS Integers, Sequences, FiniteSets, TLC

\* ------------------------------------------------------------------ bounds

\* number of cells of the (1 x NumCells) grid
NumCells == 3
\* the climatological datasets hold at most MaxYears whole years (+ 1 month)
MaxYears == 2
\* simulate() is called at most MaxRuns times on one instance
MaxRuns == 2

Cells == 1..NumCells

\* ------------------------------------------------------- double arithmetic

\* hundredths: the fixed-point resolution of a modelled double
SCALE == 100
\* thousandths: the resolution of logarithms and of arguments of exp
PREC == 1000
\* np.nan, +inf and -inf; every finite value lies strictly between the two
\* infinities
NaN == 2000000001
PInf == 2000000000
NInf == -2000000000

IsNaN(a) == a = NaN
IsInf(a) == a = PInf \/ a = NInf
IsFinite(a) == ~IsNaN(a) /\ ~IsInf(a)

\* floor division by a divisor of either sign (b # 0)
IDiv(a, b) == IF b > 0 THEN a \div b ELSE (-a) \div (-b)

FNeg(a) == IF IsNaN(a) THEN NaN
           ELSE IF a = PInf THEN NInf
           ELSE IF a = NInf THEN PInf
           ELSE -a

FAdd(a, b) ==
    IF IsNaN(a) \/ IsNaN(b) THEN NaN
    ELSE IF IsInf(a) THEN (IF IsInf(b) /\ a # b THEN NaN ELSE a)
    ELSE IF IsInf(b) THEN b
    ELSE a + b

FSub(a, b) == FAdd(a, FNeg(b))

Sign(a) == IF a > 0 THEN 1 ELSE IF a < 0 THEN -1 ELSE 0

FMul(a, b) ==
    IF IsNaN(a) \/ IsNaN(b) THEN NaN
    ELSE IF IsInf(a) \/ IsInf(b)
         THEN (IF Sign(a) * Sign(b) = 0 THEN NaN
               ELSE IF Sign(a) * Sign(b) > 0 THEN PInf ELSE NInf)
    ELSE (a * b) \div SCALE

\* a / b at resolution unit (SCALE for values, PREC for arguments of exp)
FDivAt(a, b, unit) ==
    IF IsNaN(a) \/ IsNaN(b) THEN NaN
    ELSE IF IsInf(a)
         THEN (IF IsInf(b) THEN NaN
               ELSE IF (a = PInf) = (b >= 0) THEN PInf ELSE NInf)
    ELSE IF IsInf(b) THEN 0
    ELSE IF b = 0
         THEN (IF a = 0 THEN NaN ELSE IF a > 0 THEN PInf ELSE NInf)
    ELSE IDiv(a * unit, b)

FDiv(a, b) == FDivAt(a, b, SCALE)

\* comparisons: every comparison with NaN is false
FLe(a, b) == ~IsNaN(a) /\ ~IsNaN(b) /\ a <= b
FLt(a, b) == ~IsNaN(a) /\ ~IsNaN(b) /\ a < b
FGt(a, b) == ~IsNaN(a) /\ ~IsNaN(b) /\ a > b
FGe(a, b) == ~IsNaN(a) /\ ~IsNaN(b) /\ a >= b

\* np.minimum: NaN when either operand is NaN
FMin(a, b) == IF IsNaN(a) \/ IsNaN(b) THEN NaN ELSE IF a <= b THEN a ELSE b

\* ln 2 in thousandths
LN2 == 693

RECURSIVE Pow2(_)
Pow2(k) == IF k = 0 THEN 1 ELSE 2 * Pow2(k - 1)

\* exp of a finite argument y given in thousandths, result in hundredths:
\* y = k ln 2 + r with 0 <= r < ln 2, e^r by its Taylor polynomial of degree
\* 4, then the shift by 2^k.  Arguments below -20 underflow to 0.
ExpFrac(r) ==
    PREC + r + (r * r) \div (2 * PREC)
         + (((r * r) \div PREC) * r) \div (6 * PREC)
         + (((((r * r) \div PREC) * r) \div PREC) * r) \div (24 * PREC)

ExpFin(y) ==
    IF y < -20 * PREC THEN 0
    ELSE LET k == y \div LN2
             r == y - k * LN2
             m == ExpFrac(r)
         IN IF k >= 0 THEN (m * Pow2(k)) \div (PREC \div SCALE)
            ELSE m \div (Pow2(-k) * (PREC \div SCALE))

\* np.exp of a / b, the quotient taken in thousandths
FExpRatio(a, b) ==
    LET q == FDivAt(a, b, PREC)
    IN IF IsNaN(q) THEN NaN
       ELSE IF q = PInf THEN PInf
       ELSE IF q = NInf THEN 0
       ELSE IF IsFinite(a) /\ IsFinite(b) /\ b > 0 /\ a < -20 * b THEN 0
       ELSE ExpFin(q)

\* ln of a finite x > 0 given in hundredths, result in thousandths:
\* x = m 2^k with 1 <= m < 2, ln m = 2 atanh((m - 1) / (m + 1)).
RECURSIVE LnFin(_)
LnFin(x) ==
    IF x >= 2 * SCALE THEN LN2 + LnFin(x \div 2)
    ELSE IF x < SCALE THEN LnFin(2 * x) - LN2
    ELSE LET z == ((x - SCALE) * PREC) \div (x + SCALE)
             z3 == (((z * z) \div PREC) * z) \div PREC
             z5 == (((z3 * z) \div PREC) * z) \div PREC
         IN 2 * (z + z3 \div 3 + z5 \div 5)

\* x ** a for doubles (numpy semantics): NaN for a negative base with a
\* fractional exponent, 0 ** a = 0 and inf ** a = inf for a > 0
FPow(x, a) ==
    IF IsNaN(x) \/ IsNaN(a) THEN NaN
    ELSE IF a = 0 THEN SCALE
    ELSE IF x = PInf THEN (IF a > 0 THEN PInf ELSE 0)
    ELSE IF x < 0 THEN NaN
    ELSE IF x = 0 THEN (IF a > 0 THEN 0 ELSE PInf)
    ELSE ExpFin((a * LnFin(x)) \div SCALE)


\* multiplication and division of a double by a whole number
FMulInt(a, n) == IF IsFinite(a) THEN a * n ELSE FMul(a, n * SCALE)
FDivInt(a, n) == IF IsFinite(a) THEN a \div n ELSE a

\* ------------------------------------------------------------------- state

VARIABLES
    \* the arguments the constructor was called with, and the message of the
    \* ValueError it raised ("" when it raised none)
    init_args, raised,
    \* terrain data, resolution and parameters held by the instance
    dem, cropf, whc, res, params, monthly_daylight_hours,
    \* climatological datasets: one grid per month
    prec_ds, temp_ds, num_months,
    \* state variables
    snow_accum, available_water, ground_water,
    \* self.gauge_flow, None until a run has completed
    self_gauge_flow,
    \* simulate(): arguments, position, locals
    \* (simulate_args: the two arguments as the caller passed them)
    pc, runs, simulate_args, heat_index, alpha, gauge_flow, i, year,
    year_heat_index, year_alpha, pool_pos,
    \* _simulation_step(): argument and locals of the month being computed
    daylight_hours, snow_accum_prev, snowfall_i, snow_melt_i, liquid_prec_i,
    pe_i, prec_eff_i, available_water_prev, excess_i,
    runoff_i, to_ground_water_i, ground_water_i, base_flow_i, outflow_i,
    streamflow_i,
    \* a StreamSimulation (stream.py) built from the same terrain, resolution
    \* and parameters and fed the same months: its three state grids, the
    \* value its last simulation_step returned, and whether it has already
    \* been fed the month the MonthlySimulation is about to compute
    stream, stream_gauge_flow_i, stream_fed

instance_vars == <<dem, cropf, whc, res, params, monthly_daylight_hours,
                   prec_ds, temp_ds, num_months>>
state_vars == <<snow_accum, available_water, ground_water>>
call_vars == <<simulate_args, heat_index, alpha, gauge_flow, i, year,
               year_heat_index,
               year_alpha, pool_pos>>
snow_locals == <<daylight_hours, snow_accum_prev, snowfall_i, snow_melt_i, liquid_prec_i>>
soil_locals == <<pe_i, prec_eff_i, available_water_prev, excess_i>>
flow_locals == <<runoff_i, to_ground_water_i, ground_water_i, base_flow_i,
                 outflow_i, streamflow_i>>
stream_vars == <<stream, stream_gauge_flow_i, stream_fed>>
vars == <<init_args, raised, instance_vars, state_vars, self_gauge_flow, pc,
          runs, call_vars, snow_locals, soil_locals, flow_locals, stream_vars>>

\* Python's None (an absent argument or attribute)
None == <<>>

\* seconds per month
TIME_STEP == 2592000

Grid(v) == [c \in Cells |-> v]

\* ------------------------------------------------------------ input choices

\* annual temperature cycles, in hundredths of a degree
TempCycles == <<
    << -500, 1000, 0, 200, 1500, 2000, 2650, 3000, 2000, 1000, 100, -500 >>,
    << -1000, -500, 0, 0, -100, -200, 0, 0, -300, -500, -1000, -1500 >>,
    << 2700, 2800, 3000, 3500, 3000, 2650, 2649, 2800, 3000, 2700, 2650, 2600 >>,
    << -500, 1000, NaN, 200, 1500, 2000, 2650, NaN, 2000, 1000, 1, -500 >> >>

\* annual precipitation cycles, in hundredths
PrecCycles == <<
    << 1000, 300, 5000, 20000, 0, 0, 3000, 0, 20000, 100, 0, 1000 >>,
    << 20000, 20000, 20000, 20000, 20000, 20000,
       20000, 20000, 20000, 20000, 20000, 20000 >>,
    << 0, 0, 0, 0, 0, 0, 0, 0, 0, 0, 0, 0 >>,
    << 5000, NaN, 5000, 0, 20000, 5000, NaN, 0, 5000, 5000, 0, 5000 >> >>

\* the climates a cell can have: a temperature and a precipitation cycle
Climates == << <<1, 1>>, <<1, 2>>, <<2, 2>>, <<3, 3>>, <<4, 2>>, <<3, 4>> >>

\* the climate of cell c in year y (from 0) of the dataset pair sel
ClimateOf(sel, c, y) == Climates[((sel + c + y - 2) % Len(Climates)) + 1]

TempDataset(sel, n) ==
    [m \in 1..n |-> [c \in Cells |->
        TempCycles[ClimateOf(sel, c, (m - 1) \div 12)[1]][((m - 1) % 12) + 1]]]

PrecDataset(sel, n) ==
    [m \in 1..n |-> [c \in Cells |->
        PrecCycles[ClimateOf(sel, c, (m - 1) \div 12)[2]][((m - 1) % 12) + 1]]]

\* lengths of the datasets: whole years, and one month more than a whole
\* number of years
NumMonthsChoices ==
    {12 * y : y \in 1..MaxYears} \cup {12 * (MaxYears - 1) + 1, 1}

\* init_parameters.get(..., default): the defaults
DefaultParams ==
    [HEAT_COEFF |-> 100, TEMP_SNOW_FALL |-> 200, TEMP_SNOW_MELT |-> 0,
     SNOW_MELT_COEFF |-> 1500, CROPF_COEFF |-> 150, WHC_COEFF |-> 150,
     TOGW |-> 50, C |-> 20]

\* a terrain layer argument: a filepath, standing for the band and the
\* resolution rasterio reads from it, or an ndarray, which has no
\* resolution; the band or array holds doubles, or integers (IntArray)
File(data, r) == [kind |-> "file", data |-> data, res |-> r, dtype |-> "float"]
Array(data) == [kind |-> "array", data |-> data, res |-> None, dtype |-> "float"]
IntArray(data) == [kind |-> "array", data |-> data, res |-> None, dtype |-> "int"]

\* arr[1:, 1:] on the one-row grid: an array one cell shorter
Short(g) == [c \in 1..(NumCells - 1) |-> g[c]]

\* the terrain bundles an instance is constructed from: elevation, crop
\* factor, raw water holding capacity, the res argument (whole units, None
\* when not given), daylight hours (None when not given) and init_parameters
TerrainChoices == {
    [dem |-> File([c \in Cells |-> (NumCells - c + 1) * SCALE], <<1000, 1000>>),
     cropf |-> Array(Grid(100)),
     whc |-> File(Grid(15000), <<1000, 1000>>),
     res |-> None,
     daylight |-> None,
     params |-> DefaultParams],
    [dem |-> Array([c \in Cells |-> c * SCALE]),
     cropf |-> File([c \in Cells |-> IF c = 1 THEN NaN ELSE 50], <<500, 500>>),
     whc |-> Array([c \in Cells |-> IF c = 1 THEN 200 ELSE -999900]),
     res |-> <<3000, 2000>>,
     daylight |-> <<9, 15>>,
     params |-> [DefaultParams EXCEPT !.SNOW_MELT_COEFF = 50]],
    [dem |-> Array([c \in Cells |-> (IF c >= 2 THEN c - 1 ELSE 2) * SCALE]),
     cropf |-> Array([c \in Cells |-> IF c = 1 THEN 0 ELSE 100]),
     whc |-> IntArray([c \in Cells |-> IF c = 2 THEN 0 ELSE 5000]),
     res |-> <<1000, 1000>>,
     daylight |-> None,
     params |-> [DefaultParams EXCEPT !.TOGW = 100, !.C = 100,
                                        !.TEMP_SNOW_MELT = 100]] }

\* bundles the constructor rejects: arrays only and no res; a layer of
\* another shape; both
BadTerrainChoices == {
    [dem |-> Array(Grid(SCALE)), cropf |-> Array(Grid(100)),
     whc |-> Array(Grid(15000)), res |-> None,
     daylight |-> None, params |-> DefaultParams],
    [dem |-> Array(Short(Grid(SCALE))), cropf |-> File(Grid(100), <<1000, 1000>>),
     whc |-> File(Grid(15000), <<1000, 1000>>), res |-> None,
     daylight |-> None, params |-> DefaultParams],
    [dem |-> File(Grid(SCALE), <<1000, 1000>>),
     cropf |-> File(Grid(100), <<1000, 1000>>),
     whc |-> Array(Short(Grid(15000))), res |-> <<3000, 2000>>,
     daylight |-> None, params |-> DefaultParams],
    [dem |-> Array(Grid(SCALE)), cropf |-> Array(Short(Grid(100))),
     whc |-> Array(Grid(15000)), res |-> None,
     daylight |-> None, params |-> DefaultParams] }

\* the lengths of the temperature dataset tried with a precipitation
\* dataset of n months: the same, one month less and one month more
TempLengths(n) == {n - 1, n, n + 1}

\* whc_epsilon, the default of the constructor's argument
whc_epsilon == 1

\* the (heat_index, alpha) arguments simulate() is called with
HeatArgs == {
    [heat_index |-> None, alpha |-> None],
    [heat_index |-> Grid(100), alpha |-> None],
    [heat_index |-> [c \in Cells |-> IF c = 1 THEN 0 ELSE 5000],
     alpha |-> Grid(100)],
    [heat_index |-> None, alpha |-> Grid(100)] }

\* ------------------------------------------------------------- construction

\* the value an array of the given dtype stores when v is assigned to one
\* of its elements: an integer array truncates towards zero
Stored(dtype, v) ==
    IF dtype = "int" /\ IsFinite(v)
    THEN Sign(v) * ((Sign(v) * v) \div SCALE) * SCALE
    ELSE v

\* self.whc[self.whc <= 0] = whc_epsilon, on the layer l
ReplaceNonPositive(l) ==
    [c \in DOMAIN l.data |->
        IF FLe(l.data[c], 0) THEN Stored(l.dtype, whc_epsilon) ELSE l.data[c]]

\* self.res once the three layers are loaded: every file read sets it, and
\* it is absent (None) when no layer is a file
LoadedRes(t) ==
    LET r1 == IF t.dem.kind = "file" THEN t.dem.res ELSE None
        r2 == IF t.cropf.kind = "file" THEN t.cropf.res ELSE r1
        r3 == IF t.whc.kind = "file" THEN t.whc.res ELSE r2
    IN r3

\* ResolvedRes preferring the resolution of a raster to the res argument
ResolvedResRasterFirst(t) ==
    IF LoadedRes(t) # None THEN LoadedRes(t) ELSE t.res

\* self.res after `if res is not None: self.res = res`; None stands for the
\* attribute still absent, which raises the ValueError
ResolvedRes(t) == IF t.res # None THEN t.res ELSE LoadedRes(t)

\* ndarray.shape of a one-row grid
Shape(g) == <<1, Len(g)>>

\* ShapesMatch comparing the elevation with the crop factor only
ShapesMatchFirstTwo(t) == Shape(t.dem.data) = Shape(t.cropf.data)

\* self.dem.shape == self.cropf.shape == self.whc.shape
ShapesMatch(t) ==
    /\ Shape(t.dem.data) = Shape(t.cropf.data)
    /\ Shape(t.cropf.data) = Shape(t.whc.data)

\* the ValueError __init__ raises on terrain t and datasets of np and nt
\* months, "" when it raises none: the checks in the order of the code
Raised(t, np, nt) ==
    IF ResolvedRes(t) = None THEN "the resolution must be provided"
    ELSE IF ~ShapesMatch(t) THEN "raster shapes do not match"
    ELSE IF np # nt THEN "time dimensions do not match"
    ELSE ""

\* np.zeros(self.dem.shape)
ZerosOfShape(g) == [c \in DOMAIN g |-> 0]

Init ==
    \E t \in TerrainChoices \cup BadTerrainChoices, sel \in 1..Len(Climates),
       n \in NumMonthsChoices :
      \E k \in TempLengths(n) :
        /\ init_args = [terrain |-> t, prec_len |-> n, temp_len |-> k]
        /\ raised = Raised(t, n, k)
        /\ IF raised = ""
           THEN /\ dem = t.dem.data
                /\ cropf = t.cropf.data
                /\ whc = ReplaceNonPositive(t.whc)
                /\ res = ResolvedRes(t)
                /\ params = t.params
                /\ monthly_daylight_hours = t.daylight
                /\ prec_ds = PrecDataset(sel, n)
                /\ temp_ds = TempDataset(sel, k)
                /\ num_months = n
                /\ snow_accum = ZerosOfShape(dem)
                /\ available_water = ZerosOfShape(dem)
                /\ ground_water = ZerosOfShape(dem)
                /\ stream = [snow_accum |-> ZerosOfShape(dem),
                             available_water |-> ZerosOfShape(dem),
                             ground_water |-> ZerosOfShape(dem)]
                /\ pc = "ready"
           ELSE \* the exception leaves the caller without an instance
                /\ dem = None
                /\ cropf = None
                /\ whc = None
                /\ res = None
                /\ params = None
                /\ monthly_daylight_hours = None
                /\ prec_ds = None
                /\ temp_ds = None
                /\ num_months = None
                /\ snow_accum = None
                /\ available_water = None
                /\ ground_water = None
                /\ stream = None
                /\ pc = "failed"
        /\ self_gauge_flow = None
        /\ runs = 0
        /\ simulate_args = None
        /\ heat_index = None
        /\ alpha = None
        /\ gauge_flow = None
        /\ i = 0
        /\ year = 0
        /\ year_heat_index = None
        /\ year_alpha = None
        /\ pool_pos = 0
        /\ daylight_hours = None
        /\ snow_accum_prev = None
        /\ snowfall_i = None
        /\ snow_melt_i = None
        /\ liquid_prec_i = None
        /\ pe_i = None
        /\ prec_eff_i = None
        /\ available_water_prev = None
        /\ excess_i = None
        /\ runoff_i = None
        /\ to_ground_water_i = None
        /\ ground_water_i = None
        /\ base_flow_i = None
        /\ outflow_i = None
        /\ streamflow_i = None
        /\ stream_gauge_flow_i = None
        /\ stream_fed = FALSE

\* ----------------------------------------------------------------- simulate

\* MonthlySimulation._compute_alpha, Thornthwaite (1948):
\* .49239 + .01792 h - .0000771771 h^2 + .000000675 h^3
compute_alpha(h) ==
    IF ~IsFinite(h) THEN (IF IsNaN(h) THEN NaN ELSE h)
    ELSE LET h2 == (h * h) \div (SCALE * SCALE)
             h3 == (h2 * h) \div SCALE
         IN 49 + (1792 * h) \div 100000
               - (772 * h2) \div 100000
               + (675 * (h3 \div 1000)) \div 10000

\* itertools.cycle(self.monthly_daylight_hours), or cycle([12]) when the
\* attribute is absent: the value the pos-th next() yields (from 0)
DaylightPool == IF monthly_daylight_hours = None THEN <<12>>
                ELSE monthly_daylight_hours
DaylightAt(pos) == DaylightPool[(pos % Len(DaylightPool)) + 1]

\* (temp / 5) ** 1.514 with .fillna(0)
HeatTerm(t) ==
    LET v == FPow(FDiv(t, 5 * SCALE), 151)
    IN IF IsNaN(v) THEN 0 ELSE v

RECURSIVE SumHeat(_, _, _)
SumHeat(c, first, last) ==
    IF first >= last THEN 0
    ELSE FAdd(HeatTerm(temp_ds[first + 1][c]), SumHeat(c, first + 1, last))

\* YearHeatIndex over the slice (0, last) in place of (first, last)
YearHeatIndexFromStart(first, last) ==
    [c \in Cells |-> FMul(SumHeat(c, 0, last), params.HEAT_COEFF)]

\* the heat index of the year whose months are first .. last - 1 (from 0):
\* the sum over that year's months, times HEAT_COEFF
YearHeatIndex(first, last) ==
    [c \in Cells |-> FMul(SumHeat(c, first, last), params.HEAT_COEFF)]

\* the position simulate() moves to once month i has been computed
AfterMonth ==
    IF heat_index # None
    THEN (IF i + 1 = num_months THEN "finish" ELSE "snow")
    ELSE IF i + 1 = year * 12 + 12
         THEN (IF year + 1 = num_months \div 12 THEN "finish" ELSE "year")
         ELSE "snow"

\* BeginPosition without the whole-years check
BeginPositionUnchecked(hi) ==
    IF hi # None
    THEN (IF num_months = 0 THEN "finish" ELSE "snow")
    ELSE IF num_months \div 12 = 0 THEN "finish"
    ELSE "year"

\* where simulate(hi, ...) goes after its preamble: to the first month when
\* the heat index is given; otherwise to the ValueError when the months are
\* not whole years, and to the first year when they are
BeginPosition(hi) ==
    IF hi # None
    THEN (IF num_months = 0 THEN "finish" ELSE "snow")
    ELSE IF num_months % 12 # 0 THEN "error"
    ELSE IF num_months \div 12 = 0 THEN "finish"
    ELSE "year"

\* AlphaFor computing alpha from the heat index also when alpha is given
AlphaRecomputed(a) == [c \in Cells |-> compute_alpha(a.heat_index[c])]

\* alpha in the branch with a heat index:
\* `if alpha is None: alpha = MonthlySimulation._compute_alpha(heat_index)`
AlphaFor(a) ==
    IF a.alpha = None
    THEN [c \in Cells |-> compute_alpha(a.heat_index[c])]
    ELSE a.alpha

\* simulate(heat_index, alpha) up to the first month: the daylight pool,
\* the zeroed gauge_flow, alpha from heat_index when only heat_index is
\* given, and the ValueError when the heat index must be computed and the
\* months are not whole years
SimulateBegin ==
    /\ pc \in {"ready", "complete", "error"}
    /\ runs < MaxRuns
    /\ \E a \in HeatArgs :
        /\ simulate_args' = a
        /\ heat_index' = a.heat_index
        /\ pool_pos' = 0
        /\ gauge_flow' = [m \in 1..num_months |-> 0]
        /\ i' = 0
        /\ year' = 0
        /\ IF a.heat_index # None
           THEN /\ alpha' = AlphaFor(a)
                /\ year_heat_index' = a.heat_index
                /\ year_alpha' = alpha'
           ELSE /\ alpha' = a.alpha
                /\ UNCHANGED <<year_heat_index, year_alpha>>
        /\ pc' = BeginPosition(a.heat_index)
    /\ runs' = runs + 1
    /\ UNCHANGED <<init_args, raised, instance_vars, state_vars,
                   self_gauge_flow, snow_locals, soil_locals, flow_locals,
                   stream_vars>>

\* the head of `for year in range(num_years)`: the year's heat index and
\* alpha from the year's temperatures
YearBegin ==
    /\ pc = "year"
    /\ LET heat == YearHeatIndex(year * 12, year * 12 + 12)
       IN /\ year_heat_index' = heat
          /\ year_alpha' = [c \in Cells |-> compute_alpha(heat[c])]
    /\ i' = year * 12
    /\ pc' = "snow"
    /\ UNCHANGED <<init_args, raised, instance_vars, state_vars,
                   self_gauge_flow, runs,
                   simulate_args, heat_index, alpha, gauge_flow, year,
                   pool_pos,
                   snow_locals, soil_locals, flow_locals, stream_vars>>

\* the tail of simulate(): gauge_flow /= TIME_STEP, self.gauge_flow = it
SimulateEnd ==
    /\ pc = "finish"
    /\ gauge_flow' = [m \in 1..num_months |-> FDivInt(gauge_flow[m], TIME_STEP)]
    /\ self_gauge_flow' = gauge_flow'
    /\ pc' = "complete"
    /\ UNCHANGED <<init_args, raised, instance_vars, state_vars, runs,
                   simulate_args, heat_index, alpha, i,
                   year, year_heat_index, year_alpha, pool_pos,
                   snow_locals, soil_locals, flow_locals, stream_vars>>

\* ------------------------------------------------------- _simulation_step

\* the month's inputs: prec_ds.isel(time=i), temp_ds.isel(time=i)
prec_i == prec_ds[i + 1]
temp_i == temp_ds[i + 1]

\* SNOW
\* Snowfall with snow falling only below the snow fall temperature
SnowfallBelow(p, t) == IF FGe(t, params.TEMP_SNOW_FALL) THEN 0 ELSE p

Snowfall(p, t) == IF FGt(t, params.TEMP_SNOW_FALL) THEN 0 ELSE p

\* PotentialMelt counting the degrees above the snow fall temperature
PotentialMeltAboveFall(t) ==
    IF FLt(t, params.TEMP_SNOW_MELT) THEN 0
    ELSE FMul(params.SNOW_MELT_COEFF, FSub(t, params.TEMP_SNOW_FALL))

PotentialMelt(t) ==
    IF FLt(t, params.TEMP_SNOW_MELT) THEN 0
    ELSE FMul(params.SNOW_MELT_COEFF, FSub(t, params.TEMP_SNOW_MELT))

\* SnowMelt without the cap by the snow that there actually is
SnowMeltUncapped(accum, t) == PotentialMelt(t)

SnowMelt(accum, t) == FMin(accum, PotentialMelt(t))

SnowStep ==
    /\ pc = "snow"
    /\ stream_fed
    /\ daylight_hours' = DaylightAt(pool_pos)
    /\ pool_pos' = pool_pos + 1
    /\ snow_accum_prev' = snow_accum
    /\ snowfall_i' = [c \in Cells |-> Snowfall(prec_i[c], temp_i[c])]
    /\ snow_melt_i' = [c \in Cells |->
            SnowMelt(FAdd(snow_accum[c], snowfall_i'[c]), temp_i[c])]
    /\ snow_accum' = [c \in Cells |->
            FSub(FAdd(snow_accum[c], snowfall_i'[c]), snow_melt_i'[c])]
    /\ liquid_prec_i' = [c \in Cells |->
            FAdd(FSub(prec_i[c], snowfall_i'[c]), snow_melt_i'[c])]
    /\ pc' = "soil"
    /\ UNCHANGED <<init_args, raised, instance_vars, available_water,
                   ground_water, self_gauge_flow, runs, simulate_args,
                   heat_index, alpha, gauge_flow, i,
                   year, year_heat_index, year_alpha, soil_locals,
                   flow_locals, stream_vars>>

\* POTENTIAL EVAPOTRANSPIRATION (Thornthwaite): the three masks
HighTemp(t) == FGe(t, 2650)
\* MidTemp with both boundaries included
MidTempInclusive(t) == FGe(t, 0) /\ FLe(t, 2650)
MidTemp(t) == FGt(t, 0) /\ FLt(t, 2650)
LowTemp(t) == FLe(t, 0)

\* -415.85 + 32.24 t - .43 t^2
PeHigh(t) == FSub(FAdd(-41585, FMul(3224, t)), FMul(43, FMul(t, t)))

\* 16 (10 (t / heat)) ^ A
PeMid(t, heat, A) == FMul(16 * SCALE, FPow(FMul(10 * SCALE, FDiv(t, heat)), A))

\* pe_i starts as NaN and is then written under each mask in turn
PeMasked(t, heat, A) ==
    LET pe0 == NaN
        pe1 == IF HighTemp(t) THEN PeHigh(t) ELSE pe0
        pe2 == IF MidTemp(t) THEN PeMid(t, heat, A) ELSE pe1
        pe3 == IF LowTemp(t) THEN 0 ELSE pe2
    IN pe3

\* pe_i *= (daylight_hours / 12) * self.cropf * self.CROPF_COEFF
PotentialET(t, heat, A, daylight, cf) ==
    FMul(PeMasked(t, heat, A),
         FMul(FMul(FDiv(daylight * SCALE, 12 * SCALE), cf), params.CROPF_COEFF))

\* SOIL STORAGE (Thornthwaite-Mather): the three masks
BelowCap(prev, eff, cap) == FLe(FAdd(prev, eff), cap)
AboveCap(prev, eff, cap) == FGt(FAdd(prev, eff), cap)
Drying(eff) == FLe(eff, 0)

\* excess_i starts as zeros and is then written under each mask in turn
SoilExcess(prev, eff, cap) ==
    LET e0 == 0
        e1 == IF BelowCap(prev, eff, cap) THEN 0 ELSE e0
        e2 == IF AboveCap(prev, eff, cap)
              THEN FSub(FAdd(prev, eff), cap) ELSE e1
        e3 == IF Drying(eff) THEN 0 ELSE e2
    IN e3

\* SoilWater with the drying mask written first and the capacity masks after
SoilWaterDryingFirst(prev, eff, cap) ==
    LET a0 == prev
        a1 == IF Drying(eff) THEN FMul(prev, FExpRatio(eff, cap)) ELSE a0
        a2 == IF BelowCap(prev, eff, cap) THEN FAdd(prev, eff) ELSE a1
        a3 == IF AboveCap(prev, eff, cap) THEN cap ELSE a2
    IN a3

\* SoilWater with the drying soil updated by linear subtraction
SoilWaterLinearDrying(prev, eff, cap) ==
    IF AboveCap(prev, eff, cap) /\ ~Drying(eff) THEN cap
    ELSE IF BelowCap(prev, eff, cap) \/ Drying(eff) THEN FAdd(prev, eff)
    ELSE prev

\* SoilWater keeping the water above the capacity in the soil
SoilWaterUncapped(prev, eff, cap) ==
    LET a0 == prev
        a1 == IF BelowCap(prev, eff, cap) THEN FAdd(prev, eff) ELSE a0
        a2 == IF AboveCap(prev, eff, cap) THEN FAdd(prev, eff) ELSE a1
        a3 == IF Drying(eff) THEN FMul(prev, FExpRatio(eff, cap)) ELSE a2
    IN a3

\* available_water_i starts as a copy of the previous available water and
\* is then written under each mask in turn
SoilWater(prev, eff, cap) ==
    LET a0 == prev
        a1 == IF BelowCap(prev, eff, cap) THEN FAdd(prev, eff) ELSE a0
        a2 == IF AboveCap(prev, eff, cap) THEN cap ELSE a1
        a3 == IF Drying(eff) THEN FMul(prev, FExpRatio(eff, cap)) ELSE a2
    IN a3

\* whc = self.whc * self.WHC_COEFF
EffectiveWhc(c) == FMul(whc[c], params.WHC_COEFF)

\* WhcAfterSoil with the product written back to self.whc
WhcScaledInPlace == [c \in Cells |-> EffectiveWhc(c)]

\* self.whc after the soil phase: the product is bound to the local whc, the
\* attribute is not assigned
WhcAfterSoil == whc

\* EffectivePrec fed with the month's precipitation as it fell
EffectivePrecRaw(c, pe) == FSub(prec_i[c], pe)

\* prec_eff_i = liquid_prec_i - pe_i
EffectivePrec(c, pe) == FSub(liquid_prec_i[c], pe)

SoilStep ==
    /\ pc = "soil"
    /\ pe_i' = [c \in Cells |->
            PotentialET(temp_i[c], year_heat_index[c], year_alpha[c],
                        daylight_hours, cropf[c])]
    /\ available_water_prev' = available_water
    /\ prec_eff_i' = [c \in Cells |-> EffectivePrec(c, pe_i'[c])]
    /\ excess_i' = [c \in Cells |->
            SoilExcess(available_water[c], prec_eff_i'[c], EffectiveWhc(c))]
    /\ available_water' = [c \in Cells |->
            SoilWater(available_water[c], prec_eff_i'[c], EffectiveWhc(c))]
    /\ whc' = WhcAfterSoil
    /\ pc' = "flow"
    /\ UNCHANGED <<init_args, raised, dem, cropf, res, params,
                   monthly_daylight_hours, prec_ds, temp_ds, num_months,
                   snow_accum, ground_water, self_gauge_flow,
                   runs, call_vars, snow_locals, flow_locals,
                   stream_vars>>

\* FLOW SEPARATION
\* Runoff with the split taken as TOGW - 1
RunoffSignSlip(ex) == FMul(FSub(params.TOGW, SCALE), ex)
Runoff(ex) == FMul(FSub(SCALE, params.TOGW), ex)
ToGroundWater(ex) == FSub(ex, Runoff(ex))
\* BaseFlow releasing 1 + C of the ground water
BaseFlowOverdraw(gw) == FMul(gw, SCALE + params.C)
BaseFlow(gw) == FMul(gw, params.C)
\* Outflow taking the cell for a square of side res[0]
OutflowSquareCell(ex, gw) ==
    FMulInt(FMulInt(FDivInt(FAdd(Runoff(ex), BaseFlow(gw)), 1000), res[1]),
            res[1])

\* (outflow_i / 1000) * self.res[0] * self.res[1]
Outflow(ex, gw) ==
    FMulInt(FMulInt(FDivInt(FAdd(Runoff(ex), BaseFlow(gw)), 1000), res[1]),
            res[2])

\* FLOW ACCUMULATION, richdem.FlowAccumulation(dem, method='D8', weights):
\* every cell drains to its lowest strictly lower neighbour (the left one on
\* a tie), or nowhere when it has none
Neighbours(c) == {d \in Cells : d = c - 1 \/ d = c + 1}
Downstream(c) ==
    LET lower == {d \in Neighbours(c) : dem[d] < dem[c]}
    IN IF lower = {} THEN 0
       ELSE CHOOSE d \in lower :
                \A e \in lower : dem[d] < dem[e] \/ (dem[d] = dem[e] /\ d <= e)

RECURSIVE SumOver(_, _)
SumOver(S, f) ==
    IF S = {} THEN 0
    ELSE LET c == CHOOSE x \in S : TRUE
         IN FAdd(f[c], SumOver(S \ {c}, f))

\* accumulated[c] = weights[c] + the accumulated flow of the cells draining
\* into c
RECURSIVE Accumulated(_, _)
Accumulated(c, weights) ==
    FAdd(weights[c],
         SumOver({u \in Cells : Downstream(u) = c},
                 [u \in Cells |-> IF Downstream(u) = c
                                  THEN Accumulated(u, weights) ELSE 0]))

FlowAccumulation(weights) == [c \in Cells |-> Accumulated(c, weights)]

\* GridMax reading the gauge at the last cell of the grid
GridLast(g, n) == g[n]

\* streamflow_i.max(): NaN when any cell is NaN
RECURSIVE GridMax(_, _)
GridMax(g, n) ==
    IF n = 1 THEN g[1]
    ELSE LET m == GridMax(g, n - 1)
         IN IF IsNaN(m) \/ IsNaN(g[n]) THEN NaN
            ELSE IF g[n] > m THEN g[n] ELSE m

FlowStep ==
    /\ pc = "flow"
    /\ runoff_i' = [c \in Cells |-> Runoff(excess_i[c])]
    /\ to_ground_water_i' = [c \in Cells |-> ToGroundWater(excess_i[c])]
    /\ ground_water_i' = [c \in Cells |->
            FAdd(ground_water[c], to_ground_water_i'[c])]
    /\ base_flow_i' = [c \in Cells |-> BaseFlow(ground_water_i'[c])]
    /\ ground_water' = [c \in Cells |->
            FSub(ground_water_i'[c], base_flow_i'[c])]
    /\ outflow_i' = [c \in Cells |-> Outflow(excess_i[c], ground_water_i'[c])]
    /\ streamflow_i' = FlowAccumulation(outflow_i')
    /\ gauge_flow' = [gauge_flow EXCEPT
            ![i + 1] = GridMax(streamflow_i', NumCells)]
    /\ i' = i + 1
    /\ year' = IF heat_index = None /\ i + 1 = year * 12 + 12
               THEN year + 1 ELSE year
    /\ pc' = AfterMonth
    /\ stream_fed' = FALSE
    /\ UNCHANGED <<init_args, raised, instance_vars, snow_accum,
                   available_water, self_gauge_flow, runs, simulate_args,
                   heat_index, alpha, year_heat_index,
                   year_alpha, pool_pos, snow_locals, soil_locals,
                   stream, stream_gauge_flow_i>>

\* --------------------------------------- StreamSimulation.simulation_step

\* simulation_step of stream.py, one cell at a time.  SNOW: the cell's snow
\* pack and liquid precipitation from its pack accum_prev, precipitation p
\* and temperature t
stream_snow(accum_prev, p, t) ==
    LET snowfall == IF FGt(t, params.TEMP_SNOW_FALL) THEN 0 ELSE p
        accum == FAdd(accum_prev, snowfall)
        potential == IF FLt(t, params.TEMP_SNOW_MELT) THEN 0
                     ELSE FMul(params.SNOW_MELT_COEFF,
                               FSub(t, params.TEMP_SNOW_MELT))
        melt == FMin(accum, potential)
    IN [snow_accum |-> FSub(accum, melt),
        liquid_prec |-> FAdd(FSub(p, snowfall), melt)]

\* POTENTIAL EVAPOTRANSPIRATION: NaN, then the writes under the three masks
\* in the order of the code, then the daylight and crop factor
stream_pe(t, heat, A, daylight, cf) ==
    FMul(IF FLe(t, 0) THEN 0
         ELSE IF FGt(t, 0) /\ FLt(t, 2650)
              THEN FMul(16 * SCALE, FPow(FMul(10 * SCALE, FDiv(t, heat)), A))
         ELSE IF FGe(t, 2650)
              THEN FSub(FAdd(-41585, FMul(3224, t)), FMul(43, FMul(t, t)))
         ELSE NaN,
         FMul(FMul(FDiv(daylight * SCALE, 12 * SCALE), cf), params.CROPF_COEFF))

\* SOIL STORAGE: the last mask that matches decides (drying, then above
\* capacity, then below capacity); none leaves excess 0 and the copy of prev
stream_soil(prev, eff, cap) ==
    IF FLe(eff, 0)
    THEN [excess |-> 0, available_water |-> FMul(prev, FExpRatio(eff, cap))]
    ELSE IF FGt(FAdd(prev, eff), cap)
    THEN [excess |-> FSub(FAdd(prev, eff), cap), available_water |-> cap]
    ELSE IF FLe(FAdd(prev, eff), cap)
    THEN [excess |-> 0, available_water |-> FAdd(prev, eff)]
    ELSE [excess |-> 0, available_water |-> prev]

\* FLOW SEPARATION and the cell's outflow in volume
stream_flow(ground_prev, excess) ==
    LET runoff == FMul(FSub(SCALE, params.TOGW), excess)
        ground == FAdd(ground_prev, FSub(excess, runoff))
        base == FMul(ground, params.C)
    IN [ground_water |-> FSub(ground, base),
        outflow |-> FMulInt(FMulInt(FDivInt(FAdd(runoff, base), 1000),
                                    res[1]), res[2])]

stream_soil_of(self, c, snow, t, heat, A, daylight) ==
    stream_soil(self.available_water[c],
                FSub(snow.liquid_prec,
                     stream_pe(t[c], heat[c], A[c], daylight, cropf[c])),
                FMul(whc[c], params.WHC_COEFF))

stream_cell_of(self, c, snow, soil) ==
    [snow_accum |-> snow.snow_accum,
     available_water |-> soil.available_water,
     flow |-> stream_flow(self.ground_water[c], soil.excess)]

\* what simulation_step assigns and accumulates in cell c
stream_cell(self, c, snow, t, heat, A, daylight) ==
    stream_cell_of(self, c, snow,
                   stream_soil_of(self, c, snow, t, heat, A, daylight))

\* simulation_step(prec_i, temp_i, year_heat_index, year_alpha,
\* daylight_hours) on the state grids of self: per cell, the three state
\* values it assigns and the outflow it passes to the flow accumulation
simulation_step(self, p, t, heat, A, daylight) ==
    [c \in Cells |->
        stream_cell(self, c, stream_snow(self.snow_accum[c], p[c], t[c]),
                    t, heat, A, daylight)]

\* the StreamSimulation is fed the month the MonthlySimulation is about to
\* compute: the same precipitation, temperature, heat index, alpha and
\* daylight hours; the step returns the maximum of the flow accumulation
StreamSimulationStep ==
    /\ pc = "snow"
    /\ ~stream_fed
    /\ \E out \in {simulation_step(stream, prec_i, temp_i, year_heat_index,
                                     year_alpha, DaylightAt(pool_pos))} :
          /\ stream' = [snow_accum |-> [c \in Cells |-> out[c].snow_accum],
                        available_water |->
                            [c \in Cells |-> out[c].available_water],
                        ground_water |->
                            [c \in Cells |-> out[c].flow.ground_water]]
          /\ stream_gauge_flow_i' =
                GridMax(FlowAccumulation([c \in Cells |-> out[c].flow.outflow]),
                        NumCells)
    /\ stream_fed' = TRUE
    /\ UNCHANGED <<init_args, raised, instance_vars, state_vars,
                   self_gauge_flow, pc, runs, call_vars, snow_locals,
                   soil_locals, flow_locals>>

Next ==
    \/ SimulateBegin
    \/ YearBegin
    \/ StreamSimulationStep
    \/ SnowStep
    \/ SoilStep
    \/ FlowStep
    \/ SimulateEnd

Spec == Init /\ [][Next]_vars

\* ------------------------------------------------------------------ claims

\* the constructor returned an instance
Constructed == pc # "failed"

\* a month's locals are those of the month i while the step is past them
AfterSnow == pc \in {"soil", "flow"}
AfterSoil == pc = "flow"
Zeros == Grid(0)

\* C1: soil bound invariant.  From the all-zero state, after any sequence
\* of monthly steps, every cell has 0 <= available_water <= whc, whc being
\* the strictly positive effective capacity self.whc * WHC_COEFF.
C1_SoilBound ==
    Constructed =>
        \A c \in Cells :
            FGt(EffectiveWhc(c), 0) =>
                /\ FLe(0, available_water[c])
                /\ FLe(available_water[c], EffectiveWhc(c))

\* C1 witness: a soil step has just filled one cell to capacity with excess
\* and dried another cell that held water
C1_Witness ==
    /\ AfterSoil
    /\ \E c \in Cells :
        /\ AboveCap(available_water_prev[c], prec_eff_i[c], EffectiveWhc(c))
        /\ FGt(excess_i[c], 0)
    /\ \E d \in Cells :
        /\ FLt(prec_eff_i[d], 0)
        /\ FGt(available_water_prev[d], 0)
        /\ FLt(available_water[d], available_water_prev[d])

\* the cell's inputs of the month are defined, and so was its snow pack
SnowDefined(c) ==
    /\ ~IsNaN(prec_i[c])
    /\ ~IsNaN(temp_i[c])
    /\ ~IsNaN(snow_accum_prev[c])

\* C2: snow mass conservation.  In every month and every cell with defined
\* inputs, snow_pack_next + melt = snow_pack_prev + snowfall and
\* melt <= snow_pack_prev + snowfall; a defined snow pack is never negative.
C2_SnowConservation ==
    /\ Constructed =>
        \A c \in Cells : ~IsNaN(snow_accum[c]) => snow_accum[c] >= 0
    /\ AfterSnow =>
        \A c \in Cells :
            SnowDefined(c) =>
                /\ FAdd(snow_accum[c], snow_melt_i[c])
                       = FAdd(snow_accum_prev[c], snowfall_i[c])
                /\ FLe(snow_melt_i[c],
                       FAdd(snow_accum_prev[c], snowfall_i[c]))

\* C2 witness: a month in which the potential melt exceeds the pack, so the
\* whole pack melts, while another cell keeps accumulating snow
C2_Witness ==
    /\ AfterSnow
    /\ \E c \in Cells :
        /\ SnowDefined(c)
        /\ snow_accum_prev[c] > 0
        /\ FGt(PotentialMelt(temp_i[c]), snow_accum_prev[c])
        /\ snow_melt_i[c] = snow_accum_prev[c]
        /\ snow_accum[c] = 0
    /\ \E d \in Cells :
        /\ SnowDefined(d)
        /\ snowfall_i[d] > 0
        /\ snow_accum[d] > snow_accum_prev[d]

\* C3: every simulate() run begins its first month with the three state
\* grids equal to zero in every cell.
C3_FirstMonthFromZero ==
    (pc = "snow" /\ i = 0) =>
        /\ snow_accum = Zeros
        /\ available_water = Zeros
        /\ ground_water = Zeros

\* the positions of simulate() inside a run
InRun == pc \in {"year", "snow", "soil", "flow", "finish"}
InMonth == pc \in {"snow", "soil", "flow"}

C4_State ==
    /\ (runs > 0 /\ heat_index = None /\ num_months % 12 # 0) =>
            /\ pc = "error"
            /\ i = 0
            /\ gauge_flow = [m \in 1..num_months |-> 0]
            /\ runs = 1 => (self_gauge_flow = None /\ snow_accum = Zeros
                            /\ available_water = Zeros
                            /\ ground_water = Zeros)
    /\ pc = "error" => (heat_index = None /\ num_months % 12 # 0)
    /\ (runs > 0 /\ heat_index # None) =>
            /\ pc \in {"snow", "soil", "flow", "finish", "complete"}
            /\ InMonth => i < num_months
            /\ pc \in {"finish", "complete"} => i = num_months

C4_FailingCall ==
    (runs' = runs + 1 /\ pc' = "error") =>
        UNCHANGED <<snow_accum, available_water, ground_water, self_gauge_flow>>

\* C4: simulate() without a heat index on a number of months that is not a
\* multiple of 12 fails before any monthly step: the call leaves the three
\* state grids and self.gauge_flow as they were (no series on a first call).
\* With a heat index, simulate() never fails: it computes the months one by
\* one and returns after the last, whatever the number of months.
C4_WholeYearsOrError == [](C4_State) /\ [][C4_FailingCall]_vars

\* C4 witness: a run on a number of months that is not a multiple of 12 has
\* completed with a supplied heat index, and a later call without one failed
C4_Witness ==
    /\ pc = "error"
    /\ runs = 2
    /\ num_months % 12 # 0
    /\ num_months > 12
    /\ self_gauge_flow # None

\* the cell has no data in the month's inputs or in the crop factor
NoData(c) == IsNaN(prec_i[c]) \/ IsNaN(temp_i[c]) \/ IsNaN(cropf[c])

\* C5: no-data propagation.  A cell that is no-data in a static layer or in
\* the month's climate input is no-data in the soil excess, the soil
\* available water and the discharge of that month.
C5_NoDataPropagates ==
    AfterSoil =>
        \A c \in Cells :
            NoData(c) => (IsNaN(excess_i[c]) /\ IsNaN(available_water[c]))

C6_State ==
    /\ InRun => Len(gauge_flow) = num_months
    /\ InMonth => \A m \in 1..num_months : m > i => gauge_flow[m] = 0
    /\ pc = "finish" => i = num_months
    /\ pc = "complete" =>
        /\ Len(self_gauge_flow) = num_months
        /\ \A m \in 1..num_months : FGe(self_gauge_flow[m], 0)

C6_MonthOrder ==
    (pc = "flow" /\ pc' # "flow") =>
        /\ i' = i + 1
        /\ \A m \in 1..num_months : m # i + 1 => gauge_flow'[m] = gauge_flow[m]
        /\ FGe(gauge_flow'[i + 1], 0)

\* C6: length invariant.  simulate() returns one value per input month: the
\* months are computed in order, month i writes entry i only, all months
\* have been computed when the series is returned, and every value is
\* non-negative, with a supplied and with a derived heat index.
C6_LengthInvariant == [](C6_State) /\ [][C6_MonthOrder]_vars

\* C6 witness: a run with a derived heat index over more than one year has
\* returned a series with a positive flow
C6_Witness ==
    /\ pc = "complete"
    /\ heat_index = None
    /\ num_months > 12
    /\ \E m \in 1..num_months : FGt(self_gauge_flow[m], 0)

ParamsInRange ==
    /\ 0 <= params.TOGW /\ params.TOGW <= SCALE
    /\ 0 <= params.C /\ params.C <= SCALE

C7_State ==
    (Constructed /\ ParamsInRange) =>
        /\ \A c \in Cells : FGe(ground_water[c], 0)
        /\ outflow_i # None => \A c \in Cells : FGe(outflow_i[c], 0)

C7_Step ==
    (ParamsInRange /\ pc = "flow" /\ pc' # "flow") =>
        \A c \in Cells :
            FLe(ground_water'[c],
                FAdd(ground_water[c],
                     FSub(excess_i[c],
                          FMul(FSub(SCALE, params.TOGW), excess_i[c]))))

\* C7: non-negativity.  With 0 <= TOGW <= 1 and 0 <= C <= 1, after any
\* sequence of months from the zero state every cell has ground water >= 0,
\* discharge >= 0, and ground_water_next <= ground_water_prev + recharge.
C7_NonNegativity == [](C7_State) /\ [][C7_Step]_vars

\* C7 witness: a flow step has recharged the ground water of a cell and
\* released base flow from it
C7_Witness ==
    /\ pc \in {"snow", "finish", "year"}
    /\ outflow_i # None
    /\ \E c \in Cells :
        /\ FGt(excess_i[c], 0)
        /\ FGt(ground_water[c], 0)
        /\ FLt(ground_water[c], ground_water_i[c])
        /\ FGt(outflow_i[c], 0)

\* C8: drying takes precedence.  Where the effective precipitation is <= 0
\* the soil step yields excess 0 and available_water_prev *
\* exp(prec_eff / whc), also where the below-capacity mask matches; the
\* linear below-capacity update results only for effective precipitation > 0.
C8_DryingPrecedence ==
    AfterSoil =>
        \A c \in Cells :
            LET prev == available_water_prev[c]
                eff == prec_eff_i[c]
                cap == EffectiveWhc(c)
            IN /\ FLe(eff, 0) =>
                    /\ excess_i[c] = 0
                    /\ available_water[c] = FMul(prev, FExpRatio(eff, cap))
               /\ (BelowCap(prev, eff, cap)
                     /\ available_water[c] = FAdd(prev, eff)
                     /\ available_water[c] # prev) => FGt(eff, 0)

\* C8 witness: a cell that held water has negative effective precipitation,
\* matches the below-capacity mask, and holds the exponential result, which
\* differs from the linear one
C8_Witness ==
    /\ AfterSoil
    /\ \E c \in Cells :
        /\ FLt(prec_eff_i[c], 0)
        /\ IsFinite(prec_eff_i[c])
        /\ FGt(available_water_prev[c], 0)
        /\ BelowCap(available_water_prev[c], prec_eff_i[c], EffectiveWhc(c))
        /\ available_water[c] #
               FAdd(available_water_prev[c], prec_eff_i[c])

MasksMatching(t) ==
    Cardinality({k \in 1..3 : \/ (k = 1 /\ HighTemp(t))
                              \/ (k = 2 /\ MidTemp(t))
                              \/ (k = 3 /\ LowTemp(t))})

\* C9: the three temperature regimes partition the defined temperatures:
\* exactly one mask matches, 0 falls in the zero regime and 26.5 in the
\* quadratic one, and the cell's value is the one its regime writes.
C9_RegimesPartition ==
    AfterSoil =>
        \A c \in Cells :
            LET t == temp_i[c]
                raw == PeMasked(t, year_heat_index[c], year_alpha[c])
            IN ~IsNaN(t) =>
                /\ MasksMatching(t) = 1
                /\ t = 0 => (LowTemp(t) /\ raw = 0)
                /\ t = 2650 => (HighTemp(t) /\ raw = PeHigh(t))
                /\ t >= 2650 => raw = PeHigh(t)
                /\ (t > 0 /\ t < 2650) =>
                        raw = PeMid(t, year_heat_index[c], year_alpha[c])
                /\ t <= 0 => raw = 0
                /\ pe_i[c] = FMul(raw,
                       FMul(FMul(FDiv(daylight_hours * SCALE, 12 * SCALE),
                                 cropf[c]), params.CROPF_COEFF))

\* C9 witness: a month in which one cell is at exactly 26.5 degrees and
\* another at exactly 0 degrees
C9_Witness ==
    /\ AfterSoil
    /\ \E c \in Cells : temp_i[c] = 2650 /\ FGt(pe_i[c], 0)
    /\ \E d \in Cells : temp_i[d] = 0 /\ pe_i[d] = 0

\* the heat index computed only from the temperatures of the 12 months
\* 12 b .. 12 b + 11 (from 0)
BlockHeatIndex(b) ==
    [c \in Cells |-> FMul(SumHeat(c, 12 * b, 12 * b + 12), params.HEAT_COEFF)]

\* pc = "soil" is the state in which the step of month i reads the pair
C10_State ==
    pc = "soil" =>
        IF heat_index = None
        THEN /\ year_heat_index = BlockHeatIndex(i \div 12)
             /\ year_alpha = [c \in Cells |->
                                compute_alpha(year_heat_index[c])]
        ELSE /\ year_heat_index = heat_index
             /\ year_alpha = alpha

C10_Step ==
    (<<year_heat_index, year_alpha>>' # <<year_heat_index, year_alpha>>) =>
        \/ pc = "year" /\ i' % 12 = 0
        \/ runs' = runs + 1

\* C10: heat index and alpha are constant within each 12-month block: when
\* derived, month i uses the pair computed from the temperatures of its own
\* block only, recomputed only at block boundaries; when supplied, the same
\* pair is used for every month of the run.
C10_HeatIndexPerBlock == [](C10_State) /\ [][C10_Step]_vars

\* C10 witness: the soil step of a month of the second year is about to use
\* a derived heat index that differs from the first year's
C10_Witness ==
    /\ pc = "soil"
    /\ heat_index = None
    /\ i >= 12
    /\ year_heat_index # BlockHeatIndex(0)

\* the post-snow liquid precipitation of month m (from 0), from the month's
\* dataset precipitation and the snowfall and melt of the snow step
LiquidOfMonth(m) ==
    [c \in Cells |-> FAdd(FSub(prec_ds[m + 1][c], snowfall_i[c]), snow_melt_i[c])]

C11_State ==
    /\ pc = "soil" =>
        /\ liquid_prec_i = LiquidOfMonth(i)
        /\ \A c \in Cells :
              snow_accum[c] = FSub(FAdd(snow_accum_prev[c], snowfall_i[c]),
                                   snow_melt_i[c])
    /\ pc = "flow" =>
        /\ liquid_prec_i = LiquidOfMonth(i)
        /\ prec_eff_i = [c \in Cells |-> FSub(liquid_prec_i[c], pe_i[c])]
        /\ \A c \in Cells :
              \/ excess_i[c] = 0
              \/ excess_i[c] = FSub(FAdd(available_water_prev[c], prec_eff_i[c]),
                                    EffectiveWhc(c))

C11_Step ==
    /\ snow_accum' # snow_accum => (pc = "snow" /\ pc' = "soil" /\ i' = i)
    /\ available_water' # available_water =>
            (pc = "soil" /\ pc' = "flow" /\ i' = i)
    /\ ground_water' # ground_water => (pc = "flow" /\ i' = i + 1)
    /\ (pc = "snow" /\ pc' # "snow") =>
            /\ pc' = "soil" /\ i' = i
            /\ snow_accum_prev' = snow_accum
            /\ UNCHANGED <<available_water, ground_water>>
    /\ pc = "soil" =>
            /\ pc' = "flow" /\ i' = i
            /\ available_water_prev' = available_water
            /\ prec_eff_i' = [c \in Cells |-> FSub(liquid_prec_i[c], pe_i'[c])]
            /\ UNCHANGED <<snow_accum, ground_water, liquid_prec_i>>
    /\ pc = "flow" =>
            /\ pc' \in {"snow", "year", "finish"} /\ i' = i + 1
            /\ ground_water_i' = [c \in Cells |->
                    FAdd(ground_water[c],
                         FSub(excess_i[c],
                              FMul(FSub(SCALE, params.TOGW), excess_i[c])))]
            /\ UNCHANGED <<snow_accum, available_water, excess_i>>
    /\ i' = i + 1 => pc = "flow"

\* C11: in each month the three state grids are written once each, in the
\* order snow pack, soil available water, ground water; the soil update
\* reads the month's own post-snow liquid precipitation and the ground
\* water update the month's own soil excess; the month counter advances
\* only with the ground water write, and each update starts from the value
\* the previous month wrote.
C11_WriteOrder == [](C11_State) /\ [][C11_Step]_vars

\* C11 witness: a later month is about to start after a month that changed
\* all three state grids
C11_Witness ==
    /\ pc = "snow"
    /\ i >= 1
    /\ snow_accum # snow_accum_prev
    /\ available_water # available_water_prev
    /\ \E c \in Cells : FGt(excess_i[c], 0) /\ FGt(ground_water[c], 0)
    /\ \E c \in Cells : liquid_prec_i[c] # prec_ds[i][c]

\* the cells draining directly into c, and u draining to c along the network
Upstream(c) == {u \in Cells : Downstream(u) = c}

RECURSIVE Drains(_, _)
Drains(u, c) == u = c \/ (Downstream(u) # 0 /\ Drains(Downstream(u), c))

Catchment(c) == {u \in Cells : Drains(u, c)}

\* a month of the run in progress has been computed and its gauge value is
\* in gauge_flow[i]
MonthDone == pc \in {"snow", "year", "finish"} /\ i >= 1

FileLayers ==
    {l \in {init_args.terrain.dem, init_args.terrain.cropf,
             init_args.terrain.whc} : l.kind = "file"}

\* C13: resolution at construction.  With every terrain layer an array and
\* no res argument the constructor raises the ValueError and there is no
\* instance; a res argument is the resolution the instance holds, whatever
\* the resolution of the rasters; without a res argument and with at least
\* one layer a file, the constructor does not raise for the resolution and
\* an instance holds a resolution read from a file.
C13_Resolution ==
    /\ (FileLayers = {} /\ init_args.terrain.res = None) =>
            /\ pc = "failed"
            /\ raised = "the resolution must be provided"
    /\ (FileLayers # {} \/ init_args.terrain.res # None) =>
            raised # "the resolution must be provided"
    /\ (Constructed /\ init_args.terrain.res # None) =>
            res = init_args.terrain.res
    /\ (Constructed /\ init_args.terrain.res = None) =>
            \E l \in FileLayers : res = l.res

\* C13 witness: a run has completed on an instance built with a res
\* argument that differs from the resolution of a layer given as a file
C13_Witness ==
    /\ pc = "complete"
    /\ init_args.terrain.res # None
    /\ \E l \in FileLayers : l.res # init_args.terrain.res
    /\ res = init_args.terrain.res

\* the shapes of the three terrain arguments are the same
SameShapes ==
    /\ Len(init_args.terrain.dem.data) = Len(init_args.terrain.cropf.data)
    /\ Len(init_args.terrain.dem.data) = Len(init_args.terrain.whc.data)

\* C14: the constructor raises, and there is no instance, whenever the
\* three terrain grids do not all have the same shape or the precipitation
\* and temperature datasets differ in their number of time steps; an
\* instance that exists has num_months equal to that common number.
C14_Construction ==
    /\ ~SameShapes => (pc = "failed" /\ raised # "")
    /\ init_args.prec_len # init_args.temp_len =>
            (pc = "failed" /\ raised # "")
    /\ pc = "failed" =>
            /\ raised # ""
            /\ runs = 0
            /\ snow_accum = None /\ self_gauge_flow = None
    /\ Constructed =>
            /\ raised = ""
            /\ num_months = init_args.prec_len
            /\ num_months = init_args.temp_len
            /\ Len(prec_ds) = num_months
            /\ Len(temp_ds) = num_months

\* C14 witness: terrain of matching shapes with a resolution, and a
\* temperature dataset one month shorter than a whole year of precipitation
C14_Witness ==
    /\ pc = "failed"
    /\ SameShapes
    /\ FileLayers # {}
    /\ init_args.prec_len = 12
    /\ init_args.temp_len = 11
    /\ raised = "time dimensions do not match"

\* C15: WHC positivity.  On every instance the water holding capacity of
\* every cell is strictly positive, and so is the capacity the soil step
\* divides the effective precipitation by in the drying branch.
C15_WhcPositive ==
    Constructed =>
        \A c \in Cells :
            /\ FGt(whc[c], 0)
            /\ (AfterSoil /\ Drying(prec_eff_i[c])) => FGt(EffectiveWhc(c), 0)

\* the instance has the default thresholds (snow falls up to 2 degrees and
\* melts from 0 degrees) and is in its first run, which began with no snow
DefaultThresholds ==
    /\ params.TEMP_SNOW_FALL = 2 * SCALE
    /\ params.TEMP_SNOW_MELT = 0
    /\ runs = 1

\* the first month of cell c had temp = -5 and precip = 10
ColdFirstMonth(c) == temp_ds[1][c] = -5 * SCALE /\ prec_ds[1][c] = 10 * SCALE

\* C16: snow accumulation then melt.  From a zero pack with the default
\* thresholds and melt coefficient c, a first month with temp = -5 and
\* precip = 10 gives snowfall 10, melt 0, pack 10 and liquid precipitation
\* 0; a second month with temp = 10 gives melt = min(pack + the month's
\* snowfall, c * 10), a pack smaller by exactly that melt, and liquid
\* precipitation = the month's precipitation + that melt.
C16_SnowThenMelt ==
    (pc = "soil" /\ DefaultThresholds) =>
        \A c \in Cells :
            /\ (i = 0 /\ ColdFirstMonth(c)) =>
                    /\ snow_accum_prev[c] = 0
                    /\ snowfall_i[c] = 10 * SCALE
                    /\ snow_melt_i[c] = 0
                    /\ snow_accum[c] = 10 * SCALE
                    /\ liquid_prec_i[c] = 0
            /\ (i = 1 /\ ColdFirstMonth(c) /\ temp_i[c] = 10 * SCALE) =>
                    /\ snow_accum_prev[c] = 10 * SCALE
                    /\ snow_melt_i[c] =
                           FMin(FAdd(snow_accum_prev[c], snowfall_i[c]),
                                FMul(params.SNOW_MELT_COEFF, 10 * SCALE))
                    /\ snow_accum[c] =
                           FSub(FAdd(snow_accum_prev[c], snowfall_i[c]),
                                snow_melt_i[c])
                    /\ liquid_prec_i[c] = FAdd(prec_i[c], snow_melt_i[c])

\* C16 witness: the second month of the scenario with melt coefficient 0.5
\* and precipitation 3: half of the pack of 10 melts, and the liquid
\* precipitation is 3 + 5
C16_Witness ==
    /\ pc = "soil"
    /\ DefaultThresholds
    /\ i = 1
    /\ \E c \in Cells :
        /\ ColdFirstMonth(c)
        /\ temp_i[c] = 10 * SCALE
        /\ prec_i[c] = 3 * SCALE
        /\ params.SNOW_MELT_COEFF = 50
        /\ snow_melt_i[c] = 5 * SCALE
        /\ snow_accum[c] = 5 * SCALE
        /\ liquid_prec_i[c] = 8 * SCALE

\* C17: the static layers are immutable.  No monthly step and no simulate()
\* call changes the elevation, the crop factor, the water holding capacity,
\* the resolution, a calibration parameter, the daylight hours or the
\* datasets of the instance: of what the instance holds, only the three
\* state grids and the recorded gauge flow series change.
C17_StaticLayers == [][UNCHANGED instance_vars]_vars

\* C17 witness: two runs have completed, the state grids and the recorded
\* series have changed, and the layers are those the constructor loaded
C17_Witness ==
    /\ pc = "complete"
    /\ runs = 2
    /\ snow_accum # Zeros /\ available_water # Zeros /\ ground_water # Zeros
    /\ self_gauge_flow # None
    /\ dem = init_args.terrain.dem.data
    /\ cropf = init_args.terrain.cropf.data
    /\ params = init_args.terrain.params
    /\ \A c \in Cells : whc[c] = init_args.terrain.whc.data[c]

C18_Step ==
    pc = "flow" =>
        \A c \in Cells :
            /\ FAdd(runoff_i'[c], to_ground_water_i'[c]) = excess_i[c]
            /\ base_flow_i'[c] =
                   FMul(FAdd(ground_water[c], to_ground_water_i'[c]), params.C)
            /\ excess_i[c] =
                   FAdd(FAdd(runoff_i'[c], base_flow_i'[c]),
                        FSub(ground_water'[c], ground_water[c]))
            /\ outflow_i'[c] =
                   FMulInt(FMulInt(FDivInt(FAdd(runoff_i'[c], base_flow_i'[c]),
                                           1000), res[1]), res[2])

\* C18: flow separation conserves water in every cell and month:
\* runoff + recharge = excess, base_flow = (ground_water_prev + recharge) * C,
\* excess = runoff + base_flow + (ground_water_next - ground_water_prev),
\* and the discharge is (runoff + base_flow) / 1000 * cell width * height.
C18_FlowSeparation == [][C18_Step]_vars

\* C18 witness: a month has split a positive excess into runoff and
\* recharge over ground water that was there before, released base flow
\* and kept ground water, on cells that are not square
C18_Witness ==
    /\ MonthDone
    /\ res[1] # res[2]
    /\ \E c \in Cells :
        /\ FGt(runoff_i[c], 0)
        /\ FGt(to_ground_water_i[c], 0)
        /\ FGt(ground_water_i[c], to_ground_water_i[c])
        /\ FGt(base_flow_i[c], 0)
        /\ FGt(ground_water[c], 0)
        /\ FGt(outflow_i[c], 0)

\* C19: in every state reached from the zero state, for a cell of positive
\* capacity, the above-capacity mask and the drying mask never both match,
\* so the drying write only replaces a below-capacity result; the soil
\* excess is never negative; and a cell with excess > 0 ends the month with
\* available water equal to its capacity.
C19_MasksExclusive ==
    AfterSoil =>
        \A c \in Cells :
            LET prev == available_water_prev[c]
                eff == prec_eff_i[c]
                cap == EffectiveWhc(c)
            IN FGt(cap, 0) =>
                /\ ~(AboveCap(prev, eff, cap) /\ Drying(eff))
                /\ Drying(eff) => BelowCap(prev, eff, cap)
                /\ FGe(excess_i[c], 0)
                /\ FGt(excess_i[c], 0) => available_water[c] = cap

\* C19 witness: a cell that was full to its capacity dries, matching the
\* below-capacity mask, while another cell overflows and ends full
C19_Witness ==
    /\ AfterSoil
    /\ \E c \in Cells :
        /\ FGt(EffectiveWhc(c), 0)
        /\ available_water_prev[c] = EffectiveWhc(c)
        /\ FLt(prec_eff_i[c], 0)
        /\ BelowCap(available_water_prev[c], prec_eff_i[c], EffectiveWhc(c))
        /\ FLt(available_water[c], available_water_prev[c])
    /\ \E d \in Cells :
        /\ FGt(EffectiveWhc(d), 0)
        /\ FGt(excess_i[d], 0)
        /\ available_water[d] = EffectiveWhc(d)

\* the two simulations have been stepped through the same months
InStep == Constructed /\ ~stream_fed /\ pc \notin {"soil", "flow"}

\* C20: StreamSimulation.simulation_step and
\* MonthlySimulation._simulation_step are the same transition: from equal
\* state grids, terrain, resolution and parameters, fed the same monthly
\* inputs, they leave equal snow pack, soil available water and ground
\* water grids and return an equal gauge flow after every month.
C20_SameTransition ==
    InStep =>
        /\ stream.snow_accum = snow_accum
        /\ stream.available_water = available_water
        /\ stream.ground_water = ground_water
        /\ MonthDone => stream_gauge_flow_i = gauge_flow[i]

\* C20 witness: in a second run with a derived heat index, past the first
\* year, both simulations hold snow, soil water and ground water and have
\* returned a positive gauge flow
C20_Witness ==
    /\ InStep
    /\ MonthDone
    /\ runs = 2
    /\ heat_index = None
    /\ i > 12
    /\ \E c \in Cells : FGt(stream.snow_accum[c], 0)
    /\ \E c \in Cells : FGt(stream.available_water[c], 0)
    /\ \E c \in Cells : FGt(stream.ground_water[c], 0)
    /\ FGt(stream_gauge_flow_i, 0)

\* Thornthwaite's polynomial of a heat index h:
\* .49239 + .01792 h - .0000771771 h^2 + .000000675 h^3
ThornthwaiteAlpha(h) ==
    IF IsNaN(h) THEN NaN
    ELSE IF IsInf(h) THEN h
    ELSE LET square == (h * h) \div (SCALE * SCALE)
             cube == (square * h) \div SCALE
         IN 49 + (1792 * h) \div 100000 - (772 * square) \div 100000
               + (675 * (cube \div 1000)) \div 10000

\* C21: the heat index/alpha pair of simulate().  With a heat index and no
\* alpha, alpha is Thornthwaite's polynomial of the supplied heat index in
\* every month; with both, both are used as supplied; without a heat index
\* a supplied alpha is ignored, the pair of a month is derived from the
\* temperatures of its 12-month block, and a number of months that is not a
\* multiple of 12 is still an error.
C21_PairChoice ==
    runs > 0 =>
        IF simulate_args.heat_index # None
        THEN /\ heat_index = simulate_args.heat_index
             /\ simulate_args.alpha = None =>
                    alpha = [c \in Cells |->
                                ThornthwaiteAlpha(simulate_args.heat_index[c])]
             /\ simulate_args.alpha # None => alpha = simulate_args.alpha
             /\ pc # "error"
             /\ pc = "soil" =>
                    /\ year_heat_index = simulate_args.heat_index
                    /\ year_alpha = alpha
        ELSE /\ num_months % 12 # 0 => pc = "error"
             /\ pc = "soil" =>
                    /\ year_heat_index = BlockHeatIndex(i \div 12)
                    /\ year_alpha = [c \in Cells |->
                                        ThornthwaiteAlpha(year_heat_index[c])]

\* C21 witness: simulate(alpha=...) without a heat index is in a month of
\* the second year, about to use an alpha that is not the supplied one
C21_Witness ==
    /\ pc = "soil"
    /\ runs > 0
    /\ simulate_args.heat_index = None
    /\ simulate_args.alpha # None
    /\ i >= 12
    /\ year_alpha # simulate_args.alpha
    /\ year_heat_index = BlockHeatIndex(1)

====
